---- MODULE Spec2Model ----
(***************************************************************************)
(* Model of dadk-user/src/parser/task.rs: the task descriptor (DADKTask),  *)
(* its normalisation (trim), validation (validate), identifier derivation  *)
(* (name_version, name_version_env), source-path extraction (source_path)  *)
(* and the raw-to-canonical conversion TryFrom<DADKUserTaskType>.          *)
(*                                                                         *)
(* Text is a sequence of one-character strings, so that trimming,          *)
(* substitution and upper-casing are computed character by character.      *)
(* Option<T> is a sequence of length 0 (None) or 1 (Some).                 *)
(* Result<(), String> is <<"Ok">> or <<"Err", message>>.                   *)
(***************************************************************************)
EXTENDS Naturals, Sequences, FiniteSets

VARIABLES
    raw,     \* the DADKUserTaskType record handed to TaskType::try_from
    conv,    \* the Result of TaskType::try_from(raw); <<>> before the call
    task,    \* the DADKTask
    orig,    \* the DADKTask as it was constructed, before any trim()
    ntrim,   \* how many times trim() ran on task
    last     \* the last query made on task and what it returned

vars == <<raw, conv, task, orig, ntrim, last>>

(***************************************************************************)
(* Bounds of the model.                                                    *)
(***************************************************************************)
\* longest name drawn for the identifier derivation
MaxNameLen == 2
\* longest name drawn for trim() and validate()
MaxTextLen == 2
\* trim() calls followed on one descriptor
MaxTrims == 2

(***************************************************************************)
(* Option and Result.                                                      *)
(***************************************************************************)
None == <<>>
Some(v) == <<v>>
is_some(o) == Len(o) = 1
is_none(o) == Len(o) = 0
unwrap(o) == o[1]

Ok == <<"Ok">>
Err(msg) == <<"Err", msg>>
is_err(r) == r[1] = "Err"

\* all sequences over S of length at most n
RECURSIVE SeqsUpTo(_, _)
SeqsUpTo(S, n) ==
    IF n = 0 THEN {<<>>}
    ELSE LET shorter == SeqsUpTo(S, n - 1)
         IN  shorter \cup {Append(s, c) : s \in {t \in shorter : Len(t) = n - 1}, c \in S}

(***************************************************************************)
(* str::trim, str::replace, str::to_ascii_uppercase, Path::is_relative.    *)
(***************************************************************************)
WhiteSpace == {" ", "\t"}

RECURSIVE trim_start(_)
trim_start(s) ==
    IF s # <<>> /\ Head(s) \in WhiteSpace THEN trim_start(Tail(s)) ELSE s

RECURSIVE trim_end(_)
trim_end(s) ==
    IF s # <<>> /\ s[Len(s)] \in WhiteSpace
    THEN trim_end(SubSeq(s, 1, Len(s) - 1))
    ELSE s

trim(s) == trim_end(trim_start(s))

\* s.replace(src, dst) for one-character patterns
replace(s, src, dst) == [i \in 1..Len(s) |-> IF s[i] = src THEN dst ELSE s[i]]

LowerCase == <<"a","b","c","d","e","f","g","h","i","j","k","l","m",
               "n","o","p","q","r","s","t","u","v","w","x","y","z">>
UpperCase == <<"A","B","C","D","E","F","G","H","I","J","K","L","M",
               "N","O","P","Q","R","S","T","U","V","W","X","Y","Z">>

char_to_ascii_uppercase(c) ==
    IF \E i \in 1..Len(LowerCase) : LowerCase[i] = c
    THEN UpperCase[CHOOSE i \in 1..Len(LowerCase) : LowerCase[i] = c]
    ELSE c

to_ascii_uppercase(s) == [i \in 1..Len(s) |-> char_to_ascii_uppercase(s[i])]

\* a Unix path is absolute when it starts with the root separator
is_relative(p) == p = <<>> \/ Head(p) # "/"

(***************************************************************************)
(* NAME_VERSION_REPLACE_TABLE and the identifier derivation.               *)
(***************************************************************************)
TableWithoutPlus ==
    << <<" ", "_">>, <<"\t", "_">>, <<"-", "_">>, <<".", "_">>, <<"*", "_">> >>

NAME_VERSION_REPLACE_TABLE ==
    << <<" ", "_">>, <<"\t", "_">>, <<"-", "_">>, <<".", "_">>,
       <<"+", "_">>, <<"*", "_">> >>

\* for (src, dst) in &NAME_VERSION_REPLACE_TABLE { s = s.replace(src, dst) }
RECURSIVE replace_by_table(_, _)
replace_by_table(s, k) ==
    IF k > Len(NAME_VERSION_REPLACE_TABLE) THEN s
    ELSE replace_by_table(
             replace(s, NAME_VERSION_REPLACE_TABLE[k][1], NAME_VERSION_REPLACE_TABLE[k][2]),
             k + 1)

\* format!("{}-{}", name, version)
format_name_version(name, version) == name \o <<"-">> \o version

name_version(t) == replace_by_table(format_name_version(t.name, t.version), 1)

name_version_uppercase(name, version) ==
    replace_by_table(to_ascii_uppercase(format_name_version(name, version)), 1)

name_version_env(t) == name_version_uppercase(t.name, t.version)

(***************************************************************************)
(* The acquisition descriptors of executor::source (GitSource,             *)
(* LocalSource, ArchiveSource).  Only their constructors, validate and     *)
(* trim are used here.  A descriptor is structurally valid when its        *)
(* location is not empty; trim strips the free-text location of Git and    *)
(* Archive descriptors and leaves a Local path alone.                      *)
(***************************************************************************)
GitSource_new(url, branch, revision) ==
    [kind |-> "Git", url |-> url, branch |-> branch, revision |-> revision]
LocalSource_new(path) == [kind |-> "Local", path |-> path]
ArchiveSource_new(url) == [kind |-> "Archive", url |-> url]

LocalSource_path(lc) == lc.path

Source_validate(s) ==
    CASE s.kind = "Git" -> IF s.url = <<>> THEN Err("url is empty") ELSE Ok
      [] s.kind = "Local" -> IF s.path = <<>> THEN Err("path is empty") ELSE Ok
      [] s.kind = "Archive" -> IF s.url = <<>> THEN Err("url is empty") ELSE Ok

Source_trim(s) ==
    CASE s.kind = "Git" -> [s EXCEPT !.url = trim(s.url)]
      [] s.kind = "Local" -> s
      [] s.kind = "Archive" -> [s EXCEPT !.url = trim(s.url)]

(***************************************************************************)
(* TaskType, CodeSource, PrebuiltSource.                                   *)
(***************************************************************************)
BuildFromSource(source) == [kind |-> "BuildFromSource", source |-> source]
InstallFromPrebuilt(source) == [kind |-> "InstallFromPrebuilt", source |-> source]

CodeSource_validate(source) == Source_validate(source)
CodeSource_trim(source) == Source_trim(source)
PrebuiltSource_validate(source) == Source_validate(source)
PrebuiltSource_trim(source) == Source_trim(source)

TaskType_validate(tt) ==
    IF tt.kind = "BuildFromSource"
    THEN CodeSource_validate(tt.source)
    ELSE PrebuiltSource_validate(tt.source)

TaskType_trim(tt) ==
    IF tt.kind = "BuildFromSource"
    THEN [tt EXCEPT !.source = CodeSource_trim(tt.source)]
    ELSE [tt EXCEPT !.source = PrebuiltSource_trim(tt.source)]

(***************************************************************************)
(* DADKUserConfigKey::try_from(&str): the key a configuration string       *)
(* names, or a ParserError without a config_file.                          *)
(***************************************************************************)
OkOf(v) == <<"Ok", v>>
ParserError(config_file, message, subject) ==
    [config_file |-> config_file, error |-> <<message, subject>>]

DADKUserConfigKey_try_from(value) ==
    CASE value = "build-from-source" -> OkOf("BuildFromSource")
      [] value = "install-from-prebuilt" -> OkOf("InstallFromPrebuilt")
      [] value = "git" -> OkOf("Git")
      [] value = "local" -> OkOf("Local")
      [] value = "archive" -> OkOf("Archive")
      [] OTHER -> Err(ParserError(None, "Unknown dadk_user_config_key: ", value))

(***************************************************************************)
(* impl TryFrom<DADKUserTaskType> for TaskType.                            *)
(***************************************************************************)
keep_config_file(e, r) == e

\* .map_err(|mut e| { e.config_file = Some(config_file.clone()); e })
attach_config_file(e, r) == [e EXCEPT !.config_file = Some(r.config_file)]

unknown_source(r) ==
    Err(ParserError(Some(r.config_file), "Unknown source: ", r.source))

unknown_task_type(r) ==
    Err(ParserError(Some(r.config_file), "Unknown task type: ", r.task_type))

\* the arms of `match source` under DADKUserConfigKey::BuildFromSource
cross_BuildFromSource(source, r) ==
    CASE source = "Git" ->
           OkOf(BuildFromSource(GitSource_new(r.source_path, r.branch, r.revision)))
      [] source = "Local" -> OkOf(BuildFromSource(LocalSource_new(r.source_path)))
      [] source = "Archive" -> OkOf(BuildFromSource(ArchiveSource_new(r.source_path)))
      [] OTHER -> unknown_source(r)

cross_InstallFromPrebuilt_with_git(source, r) ==
    CASE source = "Git" ->
           OkOf(InstallFromPrebuilt(GitSource_new(r.source_path, r.branch, r.revision)))
      [] source = "Local" -> OkOf(InstallFromPrebuilt(LocalSource_new(r.source_path)))
      [] source = "Archive" -> OkOf(InstallFromPrebuilt(ArchiveSource_new(r.source_path)))
      [] OTHER -> unknown_source(r)

\* the arms of `match source` under DADKUserConfigKey::InstallFromPrebuilt
cross_InstallFromPrebuilt(source, r) ==
    CASE source = "Local" -> OkOf(InstallFromPrebuilt(LocalSource_new(r.source_path)))
      [] source = "Archive" -> OkOf(InstallFromPrebuilt(ArchiveSource_new(r.source_path)))
      [] OTHER -> unknown_source(r)

TaskType_try_from(r) ==
    LET task_type == DADKUserConfigKey_try_from(r.task_type)
    IN  IF is_err(task_type) THEN Err(attach_config_file(task_type[2], r))
        ELSE LET source == DADKUserConfigKey_try_from(r.source)
             IN  IF is_err(source) THEN Err(attach_config_file(source[2], r))
                 ELSE CASE task_type[2] = "BuildFromSource" ->
                             cross_BuildFromSource(source[2], r)
                        [] task_type[2] = "InstallFromPrebuilt" ->
                             cross_InstallFromPrebuilt(source[2], r)
                        [] OTHER -> unknown_task_type(r)

(***************************************************************************)
(* Dependency and TaskEnv.                                                 *)
(***************************************************************************)
Dependency_new(name, version) == [name |-> name, version |-> version]

Dependency_validate(d) ==
    IF d.name = <<>> THEN Err("name is empty")
    ELSE IF d.version = <<>> THEN Err("version is empty")
    ELSE Ok

Dependency_trim(d) == [name |-> trim(d.name), version |-> trim(d.version)]

TaskEnv_new(key, value) == [key |-> key, value |-> value]

TaskEnv_trim_swapped(e) == [key |-> trim(e.value), value |-> trim(e.key)]

TaskEnv_trim(e) == [key |-> trim(e.key), value |-> trim(e.value)]

TaskEnv_validate(e) ==
    IF e.key = <<>> THEN Err("Env: key is empty") ELSE Ok

(***************************************************************************)
(* BuildConfig, InstallConfig, CleanConfig.                                *)
(***************************************************************************)
BuildConfig_new(build_command) == [build_command |-> build_command]
BuildConfig_validate(b) == Ok
BuildConfig_trim(b) ==
    IF is_some(b.build_command)
    THEN [b EXCEPT !.build_command = Some(trim(unwrap(b.build_command)))]
    ELSE b

InstallConfig_new(in_dragonos_path) == [in_dragonos_path |-> in_dragonos_path]
InstallConfig_validate(i) ==
    IF is_none(i.in_dragonos_path) THEN Ok
    ELSE IF is_relative(unwrap(i.in_dragonos_path))
         THEN Err("InstallConfig: in_dragonos_path should be an Absolute path")
         ELSE Ok
InstallConfig_trim(i) == i

CleanConfig_new(clean_command) == [clean_command |-> clean_command]
CleanConfig_validate(c) == Ok
CleanConfig_trim(c) ==
    IF is_some(c.clean_command)
    THEN [c EXCEPT !.clean_command = Some(trim(unwrap(c.clean_command)))]
    ELSE c

(***************************************************************************)
(* DADKTask.                                                               *)
(***************************************************************************)
\* the first Err of a sequence of Results, as a chain of `?` returns it
RECURSIVE first_err(_, _)
first_err(results, k) ==
    IF k > Len(results) THEN Ok
    ELSE IF is_err(results[k]) THEN results[k]
    ELSE first_err(results, k + 1)

validate_depends(t) ==
    first_err([k \in 1..Len(t.depends) |-> Dependency_validate(t.depends[k])], 1)

trim_depends(t) == [k \in 1..Len(t.depends) |-> Dependency_trim(t.depends[k])]

validate_envs(t) ==
    IF is_some(t.envs)
    THEN LET envs == unwrap(t.envs)
         IN  first_err([k \in 1..Len(envs) |-> TaskEnv_validate(envs[k])], 1)
    ELSE Ok

trim_envs(t) ==
    IF is_some(t.envs)
    THEN LET envs == unwrap(t.envs)
         IN  Some([k \in 1..Len(envs) |-> TaskEnv_trim(envs[k])])
    ELSE t.envs

validate_target_arch(t) ==
    IF t.target_arch = <<>> THEN Err("target_arch is empty") ELSE Ok

validate_build_type_nonempty(t) ==
    IF t.task_type.kind = "BuildFromSource"
    THEN IF is_none(t.build.build_command) \/ t.build.build_command = Some(<<>>)
         THEN Err("build command is empty")
         ELSE Ok
    ELSE IF is_some(t.build.build_command)
         THEN Err("build command should be empty when install from prebuilt")
         ELSE Ok

validate_build_type(t) ==
    IF t.task_type.kind = "BuildFromSource"
    THEN IF is_none(t.build.build_command)
         THEN Err("build command is empty")
         ELSE Ok
    ELSE IF is_some(t.build.build_command)
         THEN Err("build command should be empty when install from prebuilt")
         ELSE Ok

DADKTask_validate_without_arch(t) ==
    IF t.name = <<>> THEN Err("name is empty")
    ELSE IF t.version = <<>> THEN Err("version is empty")
    ELSE first_err(<< TaskType_validate(t.task_type),
                      BuildConfig_validate(t.build),
                      validate_build_type(t),
                      InstallConfig_validate(t.install),
                      CleanConfig_validate(t.clean),
                      validate_depends(t),
                      validate_envs(t) >>, 1)

DADKTask_validate(t) ==
    IF t.name = <<>> THEN Err("name is empty")
    ELSE IF t.version = <<>> THEN Err("version is empty")
    ELSE first_err(<< TaskType_validate(t.task_type),
                      BuildConfig_validate(t.build),
                      validate_build_type(t),
                      InstallConfig_validate(t.install),
                      CleanConfig_validate(t.clean),
                      validate_depends(t),
                      validate_envs(t),
                      validate_target_arch(t) >>, 1)

DADKTask_trim(t) ==
    [t EXCEPT !.name = trim(t.name),
              !.version = trim(t.version),
              !.description = trim(t.description),
              !.rust_target = IF is_some(t.rust_target)
                              THEN Some(trim(unwrap(t.rust_target)))
                              ELSE t.rust_target,
              !.task_type = TaskType_trim(t.task_type),
              !.build = BuildConfig_trim(t.build),
              !.install = InstallConfig_trim(t.install),
              !.clean = CleanConfig_trim(t.clean),
              !.depends = trim_depends(t),
              !.envs = trim_envs(t)]

source_path_of_build_only(t) ==
    IF t.task_type.kind = "BuildFromSource" /\ t.task_type.source.kind = "Local"
    THEN Some(LocalSource_path(t.task_type.source))
    ELSE None

source_path(t) ==
    IF t.task_type.kind = "BuildFromSource"
    THEN IF t.task_type.source.kind = "Local"
         THEN Some(LocalSource_path(t.task_type.source))
         ELSE None
    ELSE IF t.task_type.source.kind = "Local"
         THEN Some(LocalSource_path(t.task_type.source))
         ELSE None

\* impl PartialEq for DADKTask
DADKTask_eq(a, b) ==
    /\ a.name = b.name
    /\ a.version = b.version
    /\ a.description = b.description
    /\ a.rust_target = b.rust_target
    /\ a.build_once = b.build_once
    /\ a.install_once = b.install_once
    /\ a.target_arch = b.target_arch
    /\ a.task_type = b.task_type
    /\ a.build = b.build
    /\ a.install = b.install
    /\ a.clean = b.clean
    /\ a.depends = b.depends
    /\ a.envs = b.envs

\* the architecture of DADKTask::default_target_arch with ARCH unset
default_target_arch_vec == <<"x86_64">>

\* DADKTask::new, its thirteen arguments as one record
DADKTask_new(a) ==
    [name |-> a.name, version |-> a.version, description |-> a.description,
     rust_target |-> a.rust_target, task_type |-> a.task_type, depends |-> a.depends,
     build |-> a.build, install |-> a.install, clean |-> a.clean, envs |-> a.envs,
     build_once |-> a.build_once, install_once |-> a.install_once,
     target_arch |-> IF is_some(a.target_arch) THEN unwrap(a.target_arch)
                     ELSE default_target_arch_vec]

(***************************************************************************)
(* Inputs.                                                                 *)
(***************************************************************************)
\* task-kind and source-kind strings of a raw record: the five keys of the
\* compatibility table and two strings that are no key
KindStrings ==
    {"build-from-source", "install-from-prebuilt", "git", "local", "archive",
     "bogus", ""}

RawInputs ==
    [task_type : KindStrings, source : KindStrings,
     source_path : {<<"/", "s">>, <<"u">>},
     branch : {None, Some(<<"m">>)}, revision : {None, Some(<<"r">>)},
     config_file : {"a.toml", "b.toml"}]

IdleRaw ==
    [task_type |-> "build-from-source", source |-> "local", source_path |-> <<"/", "s">>,
     branch |-> None, revision |-> None, config_file |-> "a.toml"]

IdleArgs ==
    [name |-> <<"a">>, version |-> <<"1">>, description |-> <<>>, rust_target |-> None,
     task_type |-> BuildFromSource(LocalSource_new(<<"/", "s">>)), depends |-> <<>>,
     build |-> BuildConfig_new(Some(<<"m">>)), install |-> InstallConfig_new(None),
     clean |-> CleanConfig_new(None), envs |-> None,
     build_once |-> FALSE, install_once |-> FALSE, target_arch |-> None]

IdleTask == DADKTask_new(IdleArgs)

\* descriptors for trim() and validate(): every field that validate reads is
\* drawn valid and invalid, every field that trim rewrites with and without
\* surrounding whitespace
TextIn == SeqsUpTo({" ", "a"}, MaxTextLen)
VersionIn == {<<>>, <<"1", " ">>}
\* description, rust_target, clean_command
ExtraIn ==
    { <<<<" ", "d">>, None, None>>,
      <<<<"d">>, Some(<<"t", "\t">>), Some(<<" ", "c">>)>> }
TaskTypeIn ==
    { BuildFromSource(GitSource_new(<<" ", "u">>, Some(<<"m">>), None)),
      InstallFromPrebuilt(ArchiveSource_new(<<"u", " ">>)),
      BuildFromSource(LocalSource_new(<<>>)) }
DependsIn ==
    { <<>>,
      <<Dependency_new(<<" ", "a">>, <<"1", " ">>)>>,
      <<Dependency_new(<<"a">>, <<"1">>), Dependency_new(<<>>, <<"1">>)>>,
      <<Dependency_new(<<"a">>, <<>>)>> }
BuildCommandIn == {None, Some(<<" ">>), Some(<<"m", " ">>)}
InstallPathIn == {None, Some(<<"/", "a">>), Some(<<" ", "/", "a">>), Some(<<"a">>)}
EnvsIn ==
    { None,
      Some(<<TaskEnv_new(<<" ", "k">>, <<"v", " ">>)>>),
      Some(<<TaskEnv_new(<<"k">>, <<"v">>), TaskEnv_new(<<>>, <<"v">>)>>) }
TargetArchIn == {None, Some(<<>>)}

TaskInputs ==
    { DADKTask_new(
        [name |-> n, version |-> v, description |-> x[1], rust_target |-> x[2],
         task_type |-> tt, depends |-> d, build |-> BuildConfig_new(b),
         install |-> InstallConfig_new(p), clean |-> CleanConfig_new(x[3]),
         envs |-> e, build_once |-> FALSE, install_once |-> FALSE,
         target_arch |-> ta]) :
        n \in TextIn, v \in VersionIn, x \in ExtraIn, tt \in TaskTypeIn,
        d \in DependsIn, b \in BuildCommandIn, p \in InstallPathIn, e \in EnvsIn,
        ta \in TargetArchIn }

\* descriptors for the identifier derivation and source_path()
NameChars == {" ", "\t", "-", ".", "+", "*", "_", "a", "Z"}
MyApp == <<"M", "y", " ", "A", "p", "p">>
my_app == <<"m", "y", "-", "a", "p", "p">>
NameIn == SeqsUpTo(NameChars, MaxNameLen) \cup {MyApp, my_app}
QueryVersionIn == {<<>>, <<"1", ".", "0">>, <<"1", ".", "0", ".", "2">>}
src_foo == <<"/", "s", "r", "c", "/", "f", "o", "o">>
QueryTaskTypeIn ==
    { BuildFromSource(GitSource_new(<<"u">>, None, None)),
      BuildFromSource(LocalSource_new(src_foo)),
      BuildFromSource(ArchiveSource_new(<<"u">>)),
      InstallFromPrebuilt(LocalSource_new(src_foo)),
      InstallFromPrebuilt(ArchiveSource_new(<<"u">>)) }

QueryInputs ==
    { DADKTask_new([IdleArgs EXCEPT !.name = n, !.version = v, !.task_type = tt]) :
        n \in NameIn, v \in QueryVersionIn, tt \in QueryTaskTypeIn }

(***************************************************************************)
(* Operations.                                                             *)
(***************************************************************************)
NoCall == [op |-> "none", res |-> <<>>]

\* TaskType::try_from(raw)
Convert ==
    /\ conv = <<>>
    /\ conv' = TaskType_try_from(raw)
    /\ UNCHANGED <<raw, task, orig, ntrim, last>>

\* task.trim()
Trim ==
    /\ ntrim < MaxTrims
    /\ task' = DADKTask_trim(task)
    /\ ntrim' = ntrim + 1
    /\ last' = NoCall
    /\ UNCHANGED <<raw, conv, orig>>

\* task.validate()
Validate ==
    /\ last' = [op |-> "validate", res |-> DADKTask_validate(task)]
    /\ UNCHANGED <<raw, conv, task, orig, ntrim>>

\* task.name_version()
NameVersion ==
    /\ last' = [op |-> "name_version", res |-> name_version(task)]
    /\ UNCHANGED <<raw, conv, task, orig, ntrim>>

\* task.name_version_env()
NameVersionEnv ==
    /\ last' = [op |-> "name_version_env", res |-> name_version_env(task)]
    /\ UNCHANGED <<raw, conv, task, orig, ntrim>>

\* task.source_path()
SourcePath ==
    /\ last' = [op |-> "source_path", res |-> source_path(task)]
    /\ UNCHANGED <<raw, conv, task, orig, ntrim>>

(***************************************************************************)
(* Specifications.                                                         *)
(***************************************************************************)
\* a raw record is converted
InitConvert ==
    /\ raw \in RawInputs
    /\ conv = <<>>
    /\ task = IdleTask /\ orig = IdleTask /\ ntrim = 0 /\ last = NoCall

NextConvert == Convert

SpecConvert == InitConvert /\ [][NextConvert]_vars

\* a descriptor is normalised and validated
InitTask ==
    /\ task \in TaskInputs
    /\ orig = task
    /\ ntrim = 0 /\ last = NoCall
    /\ raw = IdleRaw /\ conv = <<>>

NextTask == Trim \/ Validate

SpecTask == InitTask /\ [][NextTask]_vars

\* the identifiers and the source path of a descriptor are derived
InitQuery ==
    /\ task \in QueryInputs
    /\ orig = task
    /\ ntrim = 0 /\ last = NoCall
    /\ raw = IdleRaw /\ conv = <<>>

NextQuery == NameVersion \/ NameVersionEnv \/ SourcePath

SpecQuery == InitQuery /\ [][NextQuery]_vars

(***************************************************************************)
(* Properties of the conversion (checked under SpecConvert).               *)
(***************************************************************************)
CompatibilityTable ==
    { <<"build-from-source", "git">>, <<"build-from-source", "local">>,
      <<"build-from-source", "archive">>, <<"install-from-prebuilt", "local">>,
      <<"install-from-prebuilt", "archive">> }

ExpectedTaskType(r) ==
    CASE <<r.task_type, r.source>> = <<"build-from-source", "git">> ->
           [kind |-> "BuildFromSource",
            source |-> [kind |-> "Git", url |-> r.source_path,
                        branch |-> r.branch, revision |-> r.revision]]
      [] <<r.task_type, r.source>> = <<"build-from-source", "local">> ->
           [kind |-> "BuildFromSource",
            source |-> [kind |-> "Local", path |-> r.source_path]]
      [] <<r.task_type, r.source>> = <<"build-from-source", "archive">> ->
           [kind |-> "BuildFromSource",
            source |-> [kind |-> "Archive", url |-> r.source_path]]
      [] <<r.task_type, r.source>> = <<"install-from-prebuilt", "local">> ->
           [kind |-> "InstallFromPrebuilt",
            source |-> [kind |-> "Local", path |-> r.source_path]]
      [] <<r.task_type, r.source>> = <<"install-from-prebuilt", "archive">> ->
           [kind |-> "InstallFromPrebuilt",
            source |-> [kind |-> "Archive", url |-> r.source_path]]

\* C1: the conversion succeeds exactly on the five crossings of the
\* compatibility table, with the variant of that crossing; on every other pair
\* of task-kind and source-kind strings it returns an error and no TaskType.
C1_ConversionTable ==
    conv # <<>> =>
        IF <<raw.task_type, raw.source>> \in CompatibilityTable
        THEN conv = <<"Ok", ExpectedTaskType(raw)>>
        ELSE Len(conv) = 2 /\ conv[1] = "Err" /\ DOMAIN conv[2] = {"config_file", "error"}

\* a prebuilt install from git was converted and refused
C1_Witness ==
    /\ conv # <<>>
    /\ raw.task_type = "install-from-prebuilt" /\ raw.source = "git"
    /\ conv[1] = "Err"

\* C2: every failing conversion returns an error whose config_file is the
\* record's config_file; a prebuilt install from "git" fails with an error
\* naming the source string "git".
C2_ErrorCarriesFile ==
    (conv # <<>> /\ conv[1] = "Err") =>
        /\ conv[2].config_file = <<raw.config_file>>
        /\ (raw.task_type = "install-from-prebuilt" /\ raw.source = "git")
               => conv[2].error = <<"Unknown source: ", "git">>

\* a record whose source-kind string is no key was converted and refused,
\* the error carrying its file
C2_Witness ==
    /\ conv # <<>>
    /\ raw.task_type = "build-from-source" /\ raw.source = "bogus"
    /\ raw.config_file = "b.toml"
    /\ conv[1] = "Err" /\ conv[2].config_file = <<"b.toml">>

\* C10: whenever the task-kind string does not resolve to BuildFromSource or
\* InstallFromPrebuilt, the conversion fails with an error about the task-kind
\* string (unparseable key, or unknown task type), whatever the source-kind
\* string is.
C10_TaskKindFirst ==
    (conv # <<>> /\ raw.task_type \notin {"build-from-source", "install-from-prebuilt"}) =>
        /\ conv[1] = "Err"
        /\ \/ conv[2].error = <<"Unknown dadk_user_config_key: ", raw.task_type>>
           \/ conv[2].error = <<"Unknown task type: ", raw.task_type>>

(***************************************************************************)
(* Properties of trim() and validate() (checked under SpecTask).           *)
(***************************************************************************)
\* the invariants of the data model that descriptor t violates, by field
Violated(t) ==
    {f \in {"name"} : t.name = <<>>}
    \cup {f \in {"version"} : t.version = <<>>}
    \cup {f \in {"task_type"} : TaskType_validate(t.task_type) # <<"Ok">>}
    \cup {f \in {"build.build_command"} :
            \/ t.task_type.kind = "BuildFromSource" /\ t.build.build_command = <<>>
            \/ t.task_type.kind = "InstallFromPrebuilt" /\ t.build.build_command # <<>>}
    \cup {f \in {"install.in_dragonos_path"} :
            /\ t.install.in_dragonos_path # <<>>
            /\ \/ t.install.in_dragonos_path[1] = <<>>
               \/ t.install.in_dragonos_path[1][1] # "/"}
    \cup {f \in {"depends.name"} : \E k \in 1..Len(t.depends) : t.depends[k].name = <<>>}
    \cup {f \in {"depends.version"} :
            \E k \in 1..Len(t.depends) : t.depends[k].version = <<>>}
    \cup {f \in {"envs.key"} :
            t.envs # <<>> /\ \E k \in 1..Len(t.envs[1]) : t.envs[1][k].key = <<>>}
    \cup {f \in {"target_arch"} : t.target_arch = <<>>}

\* C3: validate() returns Err if and only if at least one listed invariant is
\* violated.
C3_ValidateIff ==
    last.op = "validate" => (last.res[1] = "Err" <=> Violated(task) # {})

\* a descriptor whose only fault is an empty target_arch was rejected
C3_Witness ==
    /\ last.op = "validate"
    /\ Violated(task) = {"target_arch"}
    /\ last.res[1] = "Err"

BuildTypeErrors ==
    { <<"Err", "build command is empty">>,
      <<"Err", "build command should be empty when install from prebuilt">> }

\* C4: BuildFromSource without a build command and InstallFromPrebuilt with
\* one always fail validation; the two other combinations never fail on the
\* build command, whatever its text, and validate when nothing else is wrong.
C4_BuildTypeRule ==
    last.op = "validate" =>
        /\ (task.task_type.kind = "BuildFromSource" /\ task.build.build_command = <<>>)
               => last.res[1] = "Err"
        /\ (task.task_type.kind = "InstallFromPrebuilt" /\ task.build.build_command # <<>>)
               => last.res[1] = "Err"
        /\ (\/ task.task_type.kind = "BuildFromSource" /\ task.build.build_command # <<>>
            \/ task.task_type.kind = "InstallFromPrebuilt" /\ task.build.build_command = <<>>)
               => /\ last.res \notin BuildTypeErrors
                  /\ Violated(task) = {} => last.res = <<"Ok">>

\* a source build whose command trim() reduced to the empty string validated
C4_Witness ==
    /\ last.op = "validate" /\ ntrim >= 1
    /\ task.task_type.kind = "BuildFromSource"
    /\ orig.build.build_command = <<<<" ">>>>
    /\ task.build.build_command = <<<<>>>>
    /\ last.res = <<"Ok">>

\* C5: a second trim() leaves the descriptor equal, under DADKTask equality,
\* to the descriptor after the first.
C5_TrimIdempotent ==
    [][(ntrim >= 1 /\ ntrim' = ntrim + 1) => DADKTask_eq(task', task)]_vars

\* trim() ran twice on a descriptor that it changed
C5_Witness ==
    /\ ntrim = 2
    /\ ~DADKTask_eq(task, orig)
    /\ task.envs # <<>> /\ orig.envs # task.envs

\* t with the surrounding whitespace stripped from each of its text-valued
\* fields, the install path included
Stripped(t) ==
    [DADKTask_trim(t) EXCEPT
        !.install.in_dragonos_path =
            IF t.install.in_dragonos_path = <<>> THEN <<>>
            ELSE <<trim(t.install.in_dragonos_path[1])>>]

\* C6: validate() after trim() returns Ok for every descriptor that satisfies
\* all invariants once the surrounding whitespace of its text-valued fields,
\* the install path included, is stripped.
C6_NoWhitespaceRejection ==
    (last.op = "validate" /\ ntrim >= 1 /\ Violated(Stripped(orig)) = {})
        => last.res = <<"Ok">>

SingleFaultInputs == {t \in TaskInputs : Cardinality(Violated(t)) = 1}

\* C9: two descriptors that each violate exactly one invariant, on different
\* fields, never receive the same error from validate().
C9_DistinctErrors ==
    (last.op = "validate" /\ Cardinality(Violated(task)) = 1) =>
        \A t \in SingleFaultInputs :
            Violated(t) # Violated(task) => DADKTask_validate(t) # last.res

(***************************************************************************)
(* Properties of the derived values (checked under SpecQuery).             *)
(***************************************************************************)
Substituted == {" ", "\t", "-", ".", "+", "*"}
Underscored(s) == [i \in 1..Len(s) |-> IF s[i] \in Substituted THEN "_" ELSE s[i]]

\* C7: name_version is name, separator, version with each of the six
\* characters replaced by an underscore (same length, none of the six left);
\* name_version_env is the ASCII-upper-cased name_version of the same pair.
C7_NameVersion ==
    /\ last.op = "name_version" =>
        /\ last.res = Underscored(task.name \o <<"-">> \o task.version)
        /\ Len(last.res) = Len(task.name) + 1 + Len(task.version)
        /\ \A i \in 1..Len(last.res) : last.res[i] \notin Substituted
        /\ (task.name = MyApp /\ task.version = <<"1", ".", "0", ".", "2">>)
               => last.res = <<"M", "y", "_", "A", "p", "p", "_", "1", "_", "0", "_", "2">>
    /\ last.op = "name_version_env" =>
        /\ last.res = to_ascii_uppercase(name_version(task))
        /\ (task.name = my_app /\ task.version = <<"1", ".", "0">>)
               => last.res = <<"M", "Y", "_", "A", "P", "P", "_", "1", "_", "0">>

\* the environment identifier of ("my-app", "1.0") was derived
C7_Witness ==
    /\ last.op = "name_version_env"
    /\ task.name = my_app /\ task.version = <<"1", ".", "0">>
    /\ last.res = <<"M", "Y", "_", "A", "P", "P", "_", "1", "_", "0">>

\* C8: source_path() returns Some(path) exactly when the source is Local, for
\* both task kinds, the path being the one stored; it leaves the task unchanged.
C8_SourcePath ==
    last.op = "source_path" =>
        /\ last.res # <<>> <=> task.task_type.source.kind = "Local"
        /\ task.task_type.source.kind = "Local" => last.res = <<task.task_type.source.path>>
        /\ task = orig

\* the path of a prebuilt install from a local directory was returned
C8_Witness ==
    /\ last.op = "source_path"
    /\ task.task_type.kind = "InstallFromPrebuilt"
    /\ task.task_type.source.kind = "Local"
    /\ last.res = <<src_foo>>

====
